---- MODULE Spec2Model ----
(***************************************************************************)
(* Model of the task scheduling and orchestration layer of the contract    *)
(* analysis pipeline: TaskManager (src/src/orchestration/task_manager.py), *)
(* AdaptiveOrchestrator (src/src/orchestration/adaptive_controller.py),    *)
(* ProjectMemory (src/src/orchestration/project_memory.py) and the         *)
(* clause-review fan-out (src/src/agents/diligent_reviewer.py).            *)
(*                                                                         *)
(* Encoding.  A task id "task-<n>" is the number n; None is NoId.  A       *)
(* context id "<project>:<version>" is the pair <<project, version>>.  A   *)
(* payload is a record whose absent keys hold Absent / NoId.               *)
(***************************************************************************)
EXTENDS Integers, Sequences, FiniteSets, TLC

----------------------------------------------------------------------------
(* Bounds of the model *)

\* enqueue calls made by callers of the TaskManager in one behaviour
MaxTasks == 2
\* calls of ingest_contract and of tasks.enqueue made by the caller of the
\* orchestrator in one behaviour
MaxCalls == 2
\* run is called with max_iterations in 0..MaxIterations
MaxIterations == 4
\* the fan-out of the reviewer is launched on 0..MaxPairs clause-policy pairs
MaxPairs == 11
\* the editor generates 0..MaxEdits suggested edits in one process call
MaxEdits == 2
\* one caller makes at most MaxWrites writing calls on the project memory
MaxWrites == 3

\* The reviewer's clause list, policy list and similarity result have at most
\* this many entries
MaxEntries == 2
\* character offsets the LLM returns in deletions and insertions
Positions == 0..3
\* priorities a caller passes to enqueue
Priorities == {0, 1}
\* readings of the clock, datetime.utcnow().timestamp(): the wall clock may
\* repeat a reading and may step back
ClockReadings == {0, 1}

----------------------------------------------------------------------------
(* Values *)

\* depends_on = None, payload without "task_id", dequeue returning None
NoId == -1
\* a payload key that is not present
Absent == "absent"
NoContextId == <<Absent>>

ContextId(project_id, version_id) == <<project_id, version_id>>

Payload(cid, pid, vid, sid, tid) ==
    [context_id |-> cid, project_id |-> pid, version_id |-> vid,
     session_id |-> sid, task_id |-> tid]

EmptyPayload == Payload(NoContextId, Absent, Absent, Absent, NoId)

\* the value dequeue returns when it returns None
NoTask ==
    [priority |-> 0, created_at |-> 0, task_id |-> NoId, task_type |-> "none",
     payload |-> EmptyPayload, depends_on |-> NoId, seq |-> 0]

----------------------------------------------------------------------------
(* State *)

VARIABLES
    queue,          \* TaskManager._queue: the heap list, index 1 is heap[0]
    in_progress,    \* TaskManager._in_progress: task id -> Task
    completed,      \* TaskManager._completed: task id -> completion record
    counter,        \* next value of TaskManager._counter
    contexts,       \* ProjectMemory._live_contexts: context id -> AnalysisContext
    memory,         \* ProjectMemory: project id -> the project's durable record
    agents,         \* AdaptiveOrchestrator.agents: the list of AgentAdapter
    pc,             \* "idle", or "run" while a call of run is in its loop
    iterations,     \* run: the local iterations (0 outside a call)
    max_iterations, \* run: the argument max_iterations (0 outside a call)
    next_uuid,      \* stands for uuid4(): the next fresh identifier
    checks,         \* fan-out: where each check_with_limit coroutine is
    semaphore,      \* fan-out: the value of the semaphore
    fan_pc,         \* fan-out: where DiligentReviewerAgent.process is
    fan_findings,   \* fan-out: the number of findings the merge loop appended
    fan_errors,     \* fan-out: the number of errors the merge loop appended
    edits,          \* editor: the batch of suggested edits of one process call
    edits_pc,       \* editor: "none", "generated", "resolved"
    pm_pc,          \* project memory callers: where each caller's call is
    pm_local,       \* project memory callers: the record each caller loaded
    pairs_to_check, \* reviewer: the clause-policy pairs process is to evaluate
    pair_pc,        \* reviewer: "none" before process builds the pairs, "paired" after
    nenq,           \* history: the number of enqueue calls made so far
    ningest,        \* history: the number of ingest_contract calls made so far
    ncaller,        \* history: the number of enqueue calls made by the caller
    executed,       \* history: the worker invocations, in order
    last            \* history: the last call made and what it returned

tmvars == <<queue, in_progress, completed, counter>>
orchvars == <<contexts, memory, agents, pc, iterations, max_iterations, next_uuid,
              ningest, ncaller, executed>>
fanvars == <<checks, semaphore, fan_pc, fan_findings, fan_errors>>
editvars == <<edits, edits_pc>>
pmvars == <<pm_pc, pm_local>>
pairvars == <<pairs_to_check, pair_pc>>
vars == <<tmvars, orchvars, fanvars, editvars, pmvars, pairvars, nenq, last>>

\* the in-process callers of one ProjectMemory
Callers == {"caller_a", "caller_b"}
\* the local variable project of a caller that is not inside a call
NothingLoaded == <<>>

Put(f, k, v) == [x \in (DOMAIN f) \cup {k} |-> IF x = k THEN v ELSE f[x]]
Drop(f, k) == [x \in (DOMAIN f) \ {k} |-> f[x]]
EmptyMap == [x \in {} |-> 0]

----------------------------------------------------------------------------
(* Task ordering and the heap (heapq on a list of Task) *)

\* Task.__lt__ of @dataclass(order=True): only priority and created_at compare
TaskLess(a, b) ==
    \/ a.priority < b.priority
    \/ a.priority = b.priority /\ a.created_at < b.created_at

\* heapq._siftdown(heap, startpos, pos) with newitem = heap[pos]
RECURSIVE SiftDown(_, _, _, _)
SiftDown(heap, startpos, pos, newitem) ==
    IF pos > startpos
    THEN LET parentpos == pos \div 2
         IN  IF TaskLess(newitem, heap[parentpos])
             THEN SiftDown([heap EXCEPT ![pos] = heap[parentpos]], startpos, parentpos, newitem)
             ELSE [heap EXCEPT ![pos] = newitem]
    ELSE [heap EXCEPT ![pos] = newitem]

\* the while loop of heapq._siftup: move the smaller child up until a leaf
RECURSIVE SiftUpLoop(_, _, _, _)
SiftUpLoop(heap, startpos, pos, newitem) ==
    LET childpos == 2 * pos
        rightpos == childpos + 1
        pick == IF rightpos <= Len(heap) /\ ~TaskLess(heap[childpos], heap[rightpos])
                THEN rightpos ELSE childpos
    IN  IF childpos <= Len(heap)
        THEN SiftUpLoop([heap EXCEPT ![pos] = heap[pick]], startpos, pick, newitem)
        ELSE SiftDown([heap EXCEPT ![pos] = newitem], startpos, pos, newitem)

\* heapq.heappush(heap, item)
HeapPush(heap, item) == SiftDown(Append(heap, item), 1, Len(heap) + 1, item)

\* heapq.heappop(heap): the item returned
HeapPopItem(heap) == IF Len(heap) = 1 THEN heap[Len(heap)] ELSE heap[1]

\* heapq.heappop(heap): the heap left
HeapPopRest(heap) ==
    LET lastelt == heap[Len(heap)]
        rest == SubSeq(heap, 1, Len(heap) - 1)
    IN  IF rest = <<>> THEN rest ELSE SiftUpLoop(rest, 1, 1, lastelt)

----------------------------------------------------------------------------
(* TaskManager *)

\* enqueue: the id given to the task
NewTaskId(payload, n) == IF payload.task_id # NoId THEN payload.task_id ELSE n

\* enqueue: the Task built from the arguments and the clock reading
\* (seq is a history field: the rank of the enqueue call that made the task)
NewTask(task_type, payload, priority, depends_on, clock, n, rank) ==
    [priority |-> priority, created_at |-> clock, task_id |-> NewTaskId(payload, n),
     task_type |-> task_type, payload |-> payload, depends_on |-> depends_on,
     seq |-> rank]

\* next(self._counter) is evaluated only when the payload carries no task_id
NextCounter(payload, n) == IF payload.task_id # NoId THEN n ELSE n + 1

\* dequeue, line 62: the dependency of candidate is incomplete
BlockedCheckOmitted(candidate, done) == FALSE
Blocked(candidate, done) ==
    candidate.depends_on # NoId /\ candidate.depends_on \notin DOMAIN done

\* dequeue, lines 64-65: requeue with slight penalty
RequeueDropped(heap, candidate) == heap
Requeue(heap, candidate) == HeapPush(heap, [candidate EXCEPT !.priority = @ + 1])

\* The while loop of dequeue leaves the set of entries and _completed as they
\* are, so it exits exactly when the queue is empty or holds a runnable entry;
\* on a queue of blocked entries only it pops and requeues for ever.
DequeueReturns(heap, done) ==
    heap = <<>> \/ \E i \in 1..Len(heap) : ~Blocked(heap[i], done)

\* dequeue: the while loop, as [queue, task] on exit
RECURSIVE DequeueLoop(_, _)
DequeueLoop(heap, done) ==
    IF heap = <<>>
    THEN [queue |-> heap, task |-> NoTask]
    ELSE LET candidate == HeapPopItem(heap)
             rest == HeapPopRest(heap)
         IN  IF Blocked(candidate, done)
             THEN DequeueLoop(Requeue(rest, candidate), done)
             ELSE [queue |-> rest, task |-> candidate]

\* dequeue, line 67: the in-progress registry after the call
InProgressAfterAnyReturn(reg, task) == Put(reg, task.task_id, task)
InProgressAfter(reg, task) ==
    IF task = NoTask THEN reg ELSE Put(reg, task.task_id, task)

\* a result dict: {"status": s} is Result(s, ""), {"error": e} is Result("", e)
Result(status, error) == [status |-> status, error |-> error]

\* mark_complete: the completion record (completed_at is not modelled)
CompletionRecord(task, result) ==
    [task_type |-> task.task_type, payload |-> task.payload, result |-> result]

\* mark_complete: the completed map after the call
CompletionNotRecorded(reg, done, task_id, result) == done
CompletedAfter(reg, done, task_id, result) ==
    IF task_id \in DOMAIN reg
    THEN Put(done, task_id, CompletionRecord(reg[task_id], result))
    ELSE done

----------------------------------------------------------------------------
(* The TaskManager driven directly by a caller: any sequence of enqueue,   *)
(* dequeue and mark_complete calls                                         *)

\* task ids a caller may put in a payload or pass to mark_complete
CallerIds == 0..(MaxTasks - 1)

TMInit ==
    /\ queue = <<>>
    /\ in_progress = EmptyMap
    /\ completed = EmptyMap
    /\ counter = 0
    /\ nenq = 0
    /\ last = [op |-> "init", kind |-> "", exc |-> "", task |-> NoTask, arg |-> NoId]
    /\ contexts = EmptyMap
    /\ memory = EmptyMap
    /\ agents = <<>>
    /\ pc = "idle"
    /\ iterations = 0
    /\ max_iterations = 0
    /\ next_uuid = 0
    /\ ningest = 0
    /\ ncaller = 0
    /\ executed = <<>>
    /\ checks = <<>>
    /\ semaphore = 0
    /\ fan_pc = "idle"
    /\ fan_findings = 0
    /\ fan_errors = 0
    /\ edits = <<>>
    /\ edits_pc = "none"
    /\ pm_pc = [c \in Callers |-> "idle"]
    /\ pm_local = [c \in Callers |-> NothingLoaded]
    /\ pairs_to_check = <<>>
    /\ pair_pc = "none"

\* TaskManager.enqueue(task_type, payload, priority, depends_on)
Enqueue(task_type, payload, priority, depends_on, clock) ==
    LET task == NewTask(task_type, payload, priority, depends_on, clock, counter, nenq)
    IN  /\ queue' = HeapPush(queue, task)
        /\ counter' = NextCounter(payload, counter)
        /\ nenq' = nenq + 1
        /\ last' = [op |-> "enqueue", kind |-> "", exc |-> "", task |-> task, arg |-> task.task_id]
        /\ UNCHANGED <<in_progress, completed>>

TMEnqueue ==
    /\ nenq < MaxTasks
    /\ \E task_type \in {"clause_review"},
          tid \in {NoId, 0},
          priority \in Priorities,
          depends_on \in {NoId} \cup CallerIds,
          clock \in ClockReadings :
            Enqueue(task_type, [EmptyPayload EXCEPT !.task_id = tid], priority, depends_on, clock)
    /\ UNCHANGED <<orchvars, fanvars, editvars, pmvars, pairvars>>

\* TaskManager.dequeue(), a call that returns
Dequeue ==
    /\ DequeueReturns(queue, completed)
    /\ \E r \in {DequeueLoop(queue, completed)} :
           /\ queue' = r.queue
           /\ in_progress' = InProgressAfter(in_progress, r.task)
           /\ last' = [op |-> "dequeue", kind |-> "", exc |-> "", task |-> r.task, arg |-> r.task.task_id]
    /\ UNCHANGED <<completed, counter, nenq>>
    /\ UNCHANGED <<orchvars, fanvars, editvars, pmvars, pairvars>>

\* TaskManager.mark_complete(task_id, result)
MarkComplete(task_id, result) ==
    /\ completed' = CompletedAfter(in_progress, completed, task_id, result)
    /\ in_progress' = Drop(in_progress, task_id)
    /\ last' = [op |-> "mark_complete", kind |-> "", exc |-> "",
                task |-> IF task_id \in DOMAIN in_progress THEN in_progress[task_id] ELSE NoTask,
                arg |-> task_id]
    /\ UNCHANGED <<queue, counter, nenq>>
    /\ UNCHANGED <<orchvars, fanvars, editvars, pmvars, pairvars>>

TMMarkComplete ==
    \E task_id \in CallerIds : MarkComplete(task_id, Result("done", ""))

TMNext == TMEnqueue \/ Dequeue \/ TMMarkComplete

TMSpec == TMInit /\ [][TMNext]_vars

----------------------------------------------------------------------------
(* ProjectMemory *)

NoText == "no_text"
NoDiff == <<>>

\* _load_project when the project file does not exist
DefaultProject ==
    [versions |-> <<>>, preferences |-> EmptyMap, agent_events |-> <<>>,
     latest_contract_text |-> NoText]

\* _load_project
LoadProject(mem, project_id) ==
    IF project_id \in DOMAIN mem THEN mem[project_id] ELSE DefaultProject

\* _save_project
SaveProject(mem, project_id, data) == Put(mem, project_id, data)

\* record_version (created_at, notes and graph_snapshot are not modelled)
RecordVersionReplacing(mem, project_id, version_id, source, checksum, diff_summary, contract_text) ==
    LET project == LoadProject(mem, project_id)
        record == [version_id |-> version_id, source |-> source, checksum |-> checksum,
                   diff_summary |-> diff_summary]
    IN  SaveProject(mem, project_id, [project EXCEPT !.versions = <<record>>])
RecordVersion(mem, project_id, version_id, source, checksum, diff_summary, contract_text) ==
    LET project == LoadProject(mem, project_id)
        record == [version_id |-> version_id, source |-> source, checksum |-> checksum,
                   diff_summary |-> diff_summary]
        appended == [project EXCEPT !.versions = Append(@, record)]
    IN  SaveProject(mem, project_id,
                    IF contract_text # NoText
                    THEN [appended EXCEPT !.latest_contract_text = contract_text]
                    ELSE appended)

\* an AgentEvent (the timestamp is not modelled)
AgentEvent(agent_name, action, version_id, task_type, detail) ==
    [agent |-> agent_name, action |-> action, version_id |-> version_id,
     task_type |-> task_type, detail |-> detail]

\* log_agent_event
LogAgentEventDropped(mem, project_id, event) == mem
LogAgentEvent(mem, project_id, event) ==
    LET project == LoadProject(mem, project_id)
    IN  SaveProject(mem, project_id, [project EXCEPT !.agent_events = Append(@, event)])

\* get_agent_events
AgentEvents(mem, project_id) == LoadProject(mem, project_id).agent_events

\* get_latest_contract_text
LatestContractText(mem, project_id) == LoadProject(mem, project_id).latest_contract_text

----------------------------------------------------------------------------
(* The analysis context and the four workers *)

\* create_initial_context (style_params and the timestamps are not modelled)
InitialContext(version_id, session_id, contract_text, clauses, policies) ==
    [version_id |-> version_id, session_id |-> session_id,
     contract_text |-> contract_text, clauses |-> clauses, policies |-> policies,
     findings |-> <<>>, neutral_rationales |-> <<>>, transformed_rationales |-> <<>>,
     suggested_edits |-> <<>>, current_agent |-> "initializing",
     workflow_stage |-> "reviewing", errors |-> <<>>]

\* update_context_metadata(state, agent_name, stage)
UpdateContextMetadata(state, agent_name, stage) ==
    [state EXCEPT !.current_agent = agent_name, !.workflow_stage = stage]

\* log_error_to_context(state, agent_name, error)
LogErrorToContext(state, agent_name) ==
    [state EXCEPT !.errors = Append(@, agent_name)]

\* k fresh identifiers, uuid4() called k times
Fresh(n, k) == [i \in 1..k |-> n + i - 1]

\* _get_relevant_policies, line 186: at most this many policies per clause
MaxRelevant == 3

FirstN(seq, n) == SubSeq(seq, 1, IF Len(seq) < n THEN Len(seq) ELSE n)

\* _get_relevant_policies, lines 163-177: the category filter
RECURSIVE CategoryMatches(_, _, _, _)
CategoryMatches(clause_type, all_policies, relevant, seen) ==
    IF all_policies = <<>>
    THEN relevant
    ELSE LET policy == Head(all_policies)
             matches == \/ policy.policy_category = clause_type
                        \/ clause_type \in policy.applicable_clauses
         IN  IF policy.policy_id \notin seen /\ matches
             THEN CategoryMatches(clause_type, Tail(all_policies),
                                  Append(relevant, policy), seen \cup {policy.policy_id})
             ELSE CategoryMatches(clause_type, Tail(all_policies), relevant, seen)

\* _get_relevant_policies; similar is what the similarity search returns
RelevantPolicies(clause, all_policies, similar) ==
    FirstN(IF clause.clause_type # Absent
           THEN CategoryMatches(clause.clause_type, all_policies, <<>>, {})
           ELSE similar,
           MaxRelevant)

\* The pairs one clause would add if checked_pairs were never consulted
AddPairsUnchecked(clause, relevant, pairs, checked) ==
    [pairs |-> pairs \o [i \in 1..Len(relevant) |-> <<clause, relevant[i]>>],
     checked |-> checked]

\* process, lines 77-87: the pairs one clause adds; pair_key is the formatted
\* string "clause_id:policy_id"
RECURSIVE AddPairs(_, _, _, _)
AddPairs(clause, relevant, pairs, checked) ==
    IF relevant = <<>>
    THEN [pairs |-> pairs, checked |-> checked]
    ELSE LET pair_key == clause.clause_id \o ":" \o Head(relevant).policy_id
         IN  IF pair_key \in checked
             THEN AddPairs(clause, Tail(relevant), pairs, checked)
             ELSE AddPairs(clause, Tail(relevant),
                           Append(pairs, <<clause, Head(relevant)>>),
                           checked \cup {pair_key})

\* process, lines 66-87: pairs_to_check
RECURSIVE PairsLoop(_, _, _, _, _)
PairsLoop(clauses, policies, similar, pairs, checked) ==
    IF clauses = <<>>
    THEN pairs
    ELSE LET r == AddPairs(Head(clauses),
                           RelevantPolicies(Head(clauses), policies, similar),
                           pairs, checked)
         IN  PairsLoop(Tail(clauses), policies, similar, r.pairs, r.checked)

PairsToCheck(clauses, policies, similar) == PairsLoop(clauses, policies, similar, <<>>, {})

\* What a worker call may do: raised says whether process raised, context is
\* the context as the call leaves it, uuid the next fresh identifier.
Outcome(raised, context, uuid) == [raised |-> raised, context |-> context, uuid |-> uuid]

\* DiligentReviewerAgent.process: each pair evaluation yields a finding or
\* None (_check_policy_compliance catches what the external call raises)
ReviewerOutcomes(state, uuid) ==
    LET entered == UpdateContextMetadata(state, "DiligentReviewerAgent", "reviewing")
        npairs == Len(PairsToCheck(state.clauses, state.policies, <<>>))
    IN  { Outcome(FALSE,
                  [entered EXCEPT !.findings = @ \o Fresh(uuid, k),
                                  !.workflow_stage = "rationalizing"],
                  uuid + k) : k \in 0..npairs }

\* NeutralRationaleAgent.process: generate_rationale yields a rationale or None
NeutralOutcomes(state, uuid) ==
    LET entered == UpdateContextMetadata(state, "NeutralRationaleAgent", "rationalizing")
    IN  IF state.findings = <<>>
        THEN { Outcome(FALSE, [entered EXCEPT !.workflow_stage = "styling"], uuid) }
        ELSE { Outcome(FALSE,
                       [entered EXCEPT !.neutral_rationales = @ \o Fresh(uuid, k),
                                       !.workflow_stage = "styling"],
                       uuid + k) : k \in 0..Len(state.findings) }

\* PersonalityAgent.process: transform_rationale yields a transformation or None
PersonalityOutcomes(state, uuid) ==
    LET entered == UpdateContextMetadata(state, "PersonalityAgent", "styling")
    IN  IF state.neutral_rationales = <<>>
        THEN { Outcome(FALSE, [entered EXCEPT !.workflow_stage = "editing"], uuid) }
        ELSE { Outcome(FALSE,
                       [entered EXCEPT !.transformed_rationales = @ \o Fresh(uuid, k),
                                       !.workflow_stage = "editing"],
                       uuid + k) : k \in 0..Len(state.neutral_rationales) }

\* EditorAgent.process, lines 113-114: an exception inside the try block is
\* logged and the stage is left as entered
EditorFailure(state, uuid) ==
    Outcome(FALSE,
            LogErrorToContext(UpdateContextMetadata(state, "EditorAgent", "editing"),
                              "EditorAgent"),
            uuid)

\* _detect_conflicts, lines 282-292: _edits_overlap reads the position keys
\* of the deletions and insertions the LLM returned (lines 336, 340) only for
\* two edits of the same clause; k edits are certain to hold such a pair when
\* they outnumber the clauses
EditsCompared(state, k) == k > Len(state.clauses)

\* EditorAgent.process: generate_edit yields an edit or None
EditorOutcomes(state, uuid) ==
    LET entered == UpdateContextMetadata(state, "EditorAgent", "editing")
    IN  IF state.transformed_rationales = <<>>
        THEN { Outcome(FALSE, [entered EXCEPT !.workflow_stage = "complete"], uuid) }
        ELSE { Outcome(FALSE,
                       [entered EXCEPT !.suggested_edits = Fresh(uuid, k),
                                       !.workflow_stage = "complete"],
                       uuid + k) : k \in 0..Len(state.transformed_rationales) }
             \cup { EditorFailure(state, uuid + k) :
                        k \in { n \in 0..Len(state.transformed_rationales) :
                                    EditsCompared(state, n) } }

\* a process_fn given to an AgentAdapter by the caller: it returns the context
\* as it is or raises
CustomOutcomes(state, uuid) == { Outcome(FALSE, state, uuid), Outcome(TRUE, state, uuid) }

\* AgentAdapter.handle
WorkerOutcomes(kind, state, uuid) ==
    CASE kind = "reviewer" -> ReviewerOutcomes(state, uuid)
      [] kind = "neutral" -> NeutralOutcomes(state, uuid)
      [] kind = "personality" -> PersonalityOutcomes(state, uuid)
      [] kind = "editor" -> EditorOutcomes(state, uuid)
      [] OTHER -> CustomOutcomes(state, uuid)

----------------------------------------------------------------------------
(* AdaptiveOrchestrator *)

Adapter(name, supported_tasks, kind) ==
    [name |-> name, supported |-> supported_tasks, kind |-> kind]

\* _build_default_agents
DefaultAgents ==
    << Adapter("DiligentReviewer", {"clause_review"}, "reviewer"),
       Adapter("NeutralRationale", {"neutral_rationale"}, "neutral"),
       Adapter("Personality", {"style_pass"}, "personality"),
       Adapter("Editor", {"editor_pass"}, "editor") >>

\* an adapter passed to the constructor in agents
CustomAgent == Adapter("Custom", {"custom_task"}, "custom")

\* _select_agent: the index of the first adapter that supports task_type, 0 for None
SelectAgentFirstRegistered(list, task_type) == IF list = <<>> THEN 0 ELSE 1
SelectAgent(list, task_type) ==
    LET capable == { i \in 1..Len(list) : task_type \in list[i].supported }
    IN  IF capable = {} THEN 0 ELSE CHOOSE i \in capable : \A j \in capable : i <= j

\* _post_process: the transition table
TransitionsSkippingStylePass(task_type) ==
    CASE task_type = "clause_review" -> <<"neutral_rationale">>
      [] task_type = "neutral_rationale" -> <<"editor_pass">>
      [] OTHER -> <<>>
Transitions(task_type) ==
    CASE task_type = "clause_review" -> <<"neutral_rationale">>
      [] task_type = "neutral_rationale" -> <<"style_pass">>
      [] task_type = "style_pass" -> <<"editor_pass">>
      [] OTHER -> <<>>

\* _post_process: new_tasks
NextTasks(task) ==
    [i \in 1..Len(Transitions(task.task_type)) |->
        [task_type |-> Transitions(task.task_type)[i],
         priority |-> task.priority + 1,
         depends_on |-> task.task_id]]

\* _post_process: status
PostStatus(task) == IF NextTasks(task) # <<>> THEN "complete" ELSE "terminal"

\* _generate_diff: None when there is no previous text or no difference
GenerateDiffOfEqualTexts(mem, project_id, new_text) ==
    LET prev_contract == LatestContractText(mem, project_id)
    IN  IF prev_contract = NoText
        THEN NoDiff
        ELSE <<prev_contract, new_text>>
GenerateDiff(mem, project_id, new_text) ==
    LET prev_contract == LatestContractText(mem, project_id)
    IN  IF prev_contract = NoText \/ prev_contract = new_text
        THEN NoDiff
        ELSE <<prev_contract, new_text>>

\* hashlib.sha256(contract_text).hexdigest()
Checksum(contract_text) == <<"sha256", contract_text>>

\* the reading of the clock at the n-th enqueue call of an orchestrator run:
\* here the clock advances between calls
ClockAt(n) == n

SessionId == "s1"

Clause1 == [clause_id |-> "c1", clause_type |-> "liability"]
Policy1 == [policy_id |-> "pol1", policy_category |-> "liability", applicable_clauses |-> {}]
Policy2 == [policy_id |-> "pol2", policy_category |-> "other", applicable_clauses |-> {"liability"}]
Policy3 == [policy_id |-> "pol3", policy_category |-> "payment", applicable_clauses |-> {}]

\* A call of ingest_contract by the caller: its arguments
IngestCall(project_id, version_id, contract_text, clauses, policies) ==
    [project_id |-> project_id, version_id |-> version_id,
     contract_text |-> contract_text, clauses |-> clauses, policies |-> policies]

\* the ingest_contract calls the caller makes: for project p1 one clause that
\* two policies match, for project p2 one clause that no policy matches
IngestCalls ==
    { IngestCall("p1", "v1", "text_a", <<Clause1>>, <<Policy1, Policy2>>),
      IngestCall("p1", "v2", "text_a", <<Clause1>>, <<Policy3>>),
      IngestCall("p2", "v1", "text_a", <<Clause1>>, <<Policy3>>) }

\* the agents given to the constructor: the default four and a custom one
RegisteredAgents == DefaultAgents \o <<CustomAgent>>

Init ==
    /\ queue = <<>>
    /\ in_progress = EmptyMap
    /\ completed = EmptyMap
    /\ counter = 0
    /\ contexts = EmptyMap
    /\ memory = EmptyMap
    /\ agents = RegisteredAgents
    /\ pc = "idle"
    /\ iterations = 0
    /\ max_iterations = 0
    /\ next_uuid = 0
    /\ nenq = 0
    /\ ningest = 0
    /\ ncaller = 0
    /\ executed = <<>>
    /\ checks = <<>>
    /\ semaphore = 0
    /\ fan_pc = "idle"
    /\ fan_findings = 0
    /\ fan_errors = 0
    /\ edits = <<>>
    /\ edits_pc = "none"
    /\ pm_pc = [c \in Callers |-> "idle"]
    /\ pm_local = [c \in Callers |-> NothingLoaded]
    /\ pairs_to_check = <<>>
    /\ pair_pc = "none"
    /\ last = [op |-> "init", kind |-> "", exc |-> "", task |-> NoTask, arg |-> NoId]

\* ingest_contract(project_id, session_id, version_id, contract_text, clauses,
\* policies) with preferences = None
Ingest(project_id, version_id, contract_text, clauses, policies) ==
    LET context_id == ContextId(project_id, version_id)
        diff_summary == GenerateDiff(memory, project_id, contract_text)
        recorded == RecordVersion(memory, project_id, version_id, "upload",
                                  Checksum(contract_text), diff_summary, contract_text)
        payload == Payload(context_id, project_id, version_id, SessionId, NoId)
        task == NewTask("clause_review", payload, 1, NoId, ClockAt(nenq), counter, nenq)
    IN  /\ pc = "idle"
        /\ ningest + ncaller < MaxCalls
        /\ contexts' = Put(contexts, context_id,
                           InitialContext(version_id, SessionId, contract_text,
                                          clauses, policies))
        /\ queue' = HeapPush(queue, task)
        /\ counter' = NextCounter(payload, counter)
        /\ memory' = LogAgentEvent(recorded, project_id,
                                   AgentEvent("orchestrator", "ingest_version", version_id,
                                              "none", <<"ingest">> \o context_id \o diff_summary))
        /\ nenq' = nenq + 1
        /\ ningest' = ningest + 1
        /\ last' = [op |-> "ingest", kind |-> "", exc |-> "", task |-> task, arg |-> task.task_id]
        /\ UNCHANGED <<in_progress, completed, agents, pc, iterations, max_iterations,
                       next_uuid, ncaller, executed>>
        /\ UNCHANGED <<fanvars, editvars, pmvars, pairvars>>

IngestContract ==
    \E c \in IngestCalls :
        Ingest(c.project_id, c.version_id, c.contract_text, c.clauses, c.policies)

\* A call of tasks.enqueue by the caller: its arguments
CallerTask(task_type, payload, priority, depends_on) ==
    [task_type |-> task_type, payload |-> payload, priority |-> priority,
     depends_on |-> depends_on]

FullPayload(project_id) ==
    Payload(ContextId(project_id, "v1"), project_id, "v1", SessionId, NoId)

\* the enqueue calls the caller makes: work for the registered custom worker,
\* a type no worker supports, payloads that lack keys, a dependency on the
\* first task and a dependency on an id that no task ever gets ("task-99")
CallerTasks ==
    { CallerTask("custom_task", FullPayload("p1"), 1, NoId),
      CallerTask("custom_task", FullPayload("p2"), 0, NoId),
      CallerTask("unknown_task", FullPayload("p1"), 0, NoId),
      CallerTask("clause_review", [FullPayload("p1") EXCEPT !.session_id = Absent], 1, NoId),
      CallerTask("custom_task", [EmptyPayload EXCEPT !.context_id = ContextId("p1", "v1")], 1, NoId),
      CallerTask("editor_pass", EmptyPayload, 1, NoId),
      CallerTask("editor_pass", FullPayload("p2"), 1, 0),
      CallerTask("custom_task", FullPayload("p1"), 0, 99) }

\* orchestrator.tasks.enqueue(...) called by the caller between runs
CallerEnqueue ==
    /\ pc = "idle"
    /\ ningest + ncaller < MaxCalls
    /\ \E c \in CallerTasks :
            Enqueue(c.task_type, c.payload, c.priority, c.depends_on, ClockAt(nenq))
    /\ ncaller' = ncaller + 1
    /\ UNCHANGED <<contexts, memory, agents, pc, iterations, max_iterations, next_uuid,
                   ningest, executed>>
    /\ UNCHANGED <<fanvars, editvars, pmvars, pairvars>>

\* run(max_iterations) is called
RunCall ==
    /\ pc = "idle"
    /\ \E m \in 0..MaxIterations : max_iterations' = m
    /\ pc' = "run"
    /\ iterations' = 0
    /\ last' = [op |-> "run_call", kind |-> "", exc |-> "", task |-> NoTask, arg |-> NoId]
    /\ UNCHANGED <<queue, in_progress, completed, counter, contexts, memory, agents,
                   next_uuid, nenq, ningest, ncaller, executed>>
    /\ UNCHANGED <<fanvars, editvars, pmvars, pairvars>>

\* run, line 147: the loop is entered again (the call of dequeue must return)
LoopEntered ==
    /\ pc = "run"
    /\ iterations < max_iterations
    /\ DequeueReturns(queue, completed)

\* run, lines 148-150 and 197: the loop ends
RunReturn ==
    /\ pc = "run"
    /\ \/ iterations >= max_iterations
       \/ /\ DequeueReturns(queue, completed)
          /\ DequeueLoop(queue, completed).task = NoTask
    /\ pc' = "idle"
    /\ iterations' = 0
    /\ max_iterations' = 0
    /\ last' = [op |-> "run_return", kind |-> "", exc |-> "", task |-> NoTask, arg |-> NoId]
    /\ UNCHANGED <<queue, in_progress, completed, counter, contexts, memory, agents,
                   next_uuid, nenq, ningest, ncaller, executed>>
    /\ UNCHANGED <<fanvars, editvars, pmvars, pairvars>>

\* the part of mark_complete(task.task_id, result) that run relies on, made
\* right after dequeue put task in the in-progress registry
CompletedByRun(task, result) ==
    CompletedAfter(InProgressAfter(in_progress, task), completed, task.task_id, result)

InProgressLeftByRun(task) == InProgressAfter(in_progress, task)
InProgressByRun(task) == Drop(InProgressAfter(in_progress, task), task.task_id)

\* run, lines 152-156 and 158-162: no agent, or no stored context
RunSkip ==
    /\ LoopEntered
    /\ \E r \in {DequeueLoop(queue, completed)} :
       \E task \in {r.task} :
       \E agent \in {SelectAgent(agents, task.task_type)} :
       LET error == IF agent = 0 THEN "no_agent" ELSE "missing_context"
       IN  /\ task # NoTask
           /\ \/ agent = 0
              \/ /\ task.payload.context_id # NoContextId
                 /\ task.payload.context_id \notin DOMAIN contexts
           /\ queue' = r.queue
           /\ completed' = CompletedByRun(task, Result("", error))
           /\ in_progress' = InProgressByRun(task)
           /\ iterations' = iterations + 1
           /\ last' = [op |-> "run", kind |-> error, exc |-> "", task |-> task,
                       arg |-> task.task_id]
    /\ UNCHANGED <<counter, contexts, memory, agents, pc, max_iterations, next_uuid,
                   nenq, ningest, ncaller, executed>>
    /\ UNCHANGED <<fanvars, editvars, pmvars, pairvars>>

\* run, line 158 with a payload that has no "context_id": the KeyError of
\* _load_context is raised outside the try block and leaves run
RunContextKeyError ==
    /\ LoopEntered
    /\ \E r \in {DequeueLoop(queue, completed)} :
       \E task \in {r.task} :
           /\ task # NoTask
           /\ SelectAgent(agents, task.task_type) # 0
           /\ task.payload.context_id = NoContextId
           /\ queue' = r.queue
           /\ in_progress' = InProgressAfter(in_progress, task)
           /\ pc' = "idle"
           /\ iterations' = 0
           /\ max_iterations' = 0
           /\ last' = [op |-> "run", kind |-> "raised", exc |-> "KeyError", task |-> task,
                       arg |-> task.task_id]
    /\ UNCHANGED <<completed, counter, contexts, memory, agents, next_uuid, nenq,
                   ningest, ncaller, executed>>
    /\ UNCHANGED <<fanvars, editvars, pmvars, pairvars>>

\* run, lines 175-186: the queue and the counter after the successors of task
\* are enqueued (n is the rank of the first of these enqueue calls)
RECURSIVE EnqueueAll(_, _, _, _, _)
EnqueueAll(heap, specs, task, cnt, n) ==
    IF specs = <<>>
    THEN [queue |-> heap, counter |-> cnt, nenq |-> n]
    ELSE LET spec == Head(specs)
             payload == Payload(task.payload.context_id, task.payload.project_id,
                                task.payload.version_id, task.payload.session_id, NoId)
             new == NewTask(spec.task_type, payload, spec.priority, spec.depends_on,
                            ClockAt(n), cnt, n)
         IN  EnqueueAll(HeapPush(heap, new), Tail(specs), task,
                        NextCounter(payload, cnt), n + 1)

\* run, lines 164-197: a worker is invoked
RunWorker ==
    /\ LoopEntered
    /\ \E r \in {DequeueLoop(queue, completed)} :
       \E task \in {r.task} :
       \E agent \in {SelectAgent(agents, task.task_type)} :
       LET context_id == task.payload.context_id
       IN  /\ task # NoTask
           /\ agent # 0
           /\ context_id \in DOMAIN contexts
           /\ \E o \in WorkerOutcomes(agents[agent].kind, contexts[context_id], next_uuid) :
                LET has_ids == /\ task.payload.project_id # Absent
                               /\ task.payload.version_id # Absent
                    new_tasks == NextTasks(task)
                    \* the try block is left by an exception
                    key_error == \/ ~has_ids
                                 \/ new_tasks # <<>> /\ task.payload.session_id = Absent
                    failed == o.raised \/ key_error
                    exc == IF o.raised THEN "worker_error" ELSE "KeyError"
                    \* line 168 is reached and logs "completed"
                    logged == IF ~o.raised /\ has_ids
                              THEN LogAgentEvent(memory, task.payload.project_id,
                                       AgentEvent(agents[agent].name, "completed",
                                                  task.payload.version_id, task.task_type,
                                                  <<agents[agent].name, "handled", task.task_type>>))
                              ELSE memory
                IN  \E enq \in {IF failed
                                THEN [queue |-> r.queue, counter |-> counter, nenq |-> nenq]
                                ELSE EnqueueAll(r.queue, new_tasks, task, counter, nenq)} :
                    /\ contexts' = [contexts EXCEPT ![context_id] = o.context]
                    /\ next_uuid' = o.uuid
                    /\ executed' = Append(executed,
                                          [task_type |-> task.task_type,
                                           context_id |-> context_id,
                                           task_id |-> task.task_id])
                    /\ queue' = enq.queue
                    /\ counter' = enq.counter
                    /\ nenq' = enq.nenq
                    /\ max_iterations' = IF failed /\ ~has_ids THEN 0 ELSE max_iterations
                    /\ IF ~failed
                       THEN /\ memory' = logged
                            /\ completed' = CompletedByRun(task, Result(PostStatus(task), ""))
                            /\ in_progress' = InProgressByRun(task)
                            /\ iterations' = iterations + 1
                            /\ pc' = pc
                            /\ last' = [op |-> "run", kind |-> "completed", exc |-> "",
                                        task |-> task, arg |-> task.task_id]
                       ELSE IF has_ids
                       THEN /\ memory' = LogAgentEvent(logged, task.payload.project_id,
                                             AgentEvent(agents[agent].name, "error",
                                                        task.payload.version_id,
                                                        task.task_type, <<exc>>))
                            /\ completed' = CompletedByRun(task, Result("", exc))
                            /\ in_progress' = InProgressByRun(task)
                            /\ iterations' = iterations + 1
                            /\ pc' = pc
                            /\ last' = [op |-> "run", kind |-> "error", exc |-> exc,
                                        task |-> task, arg |-> task.task_id]
                       ELSE \* the handler's own payload["project_id"] raises KeyError
                            /\ memory' = logged
                            /\ completed' = completed
                            /\ in_progress' = InProgressAfter(in_progress, task)
                            /\ iterations' = 0
                            /\ pc' = "idle"
                            /\ last' = [op |-> "run", kind |-> "raised", exc |-> exc,
                                        task |-> task, arg |-> task.task_id]
    /\ UNCHANGED <<agents, ningest, ncaller>>
    /\ UNCHANGED <<fanvars, editvars, pmvars, pairvars>>

Next ==
    \/ IngestContract
    \/ CallerEnqueue
    \/ RunCall
    \/ RunSkip
    \/ RunContextKeyError
    \/ RunWorker
    \/ RunReturn

Spec == Init /\ [][Next]_vars

----------------------------------------------------------------------------
(* run(max_iterations) as one call, with deterministic workers.  The data  *)
(* run works on is a record d of the task manager's fields, the stored     *)
(* contexts, the project memory and the two sources of fresh ids and clock *)
(* readings; iterations is the local counter of the loop.                  *)

\* what run reads and writes
RunData ==
    [queue |-> queue, in_progress |-> in_progress, completed |-> completed,
     counter |-> counter, contexts |-> contexts, memory |-> memory,
     next_uuid |-> next_uuid, nenq |-> nenq]

\* the workers are functions of the context: "productive" workers return the
\* most they can, "failing" ones raise where the worker can raise
Behaviours == {"productive", "failing"}

\* the outcome a deterministic worker of the given behaviour has
Deterministic(outcomes, behaviour) ==
    LET raising == {o \in outcomes : o.raised}
        candidates == IF behaviour = "failing" /\ raising # {}
                      THEN raising
                      ELSE {o \in outcomes : ~o.raised}
    IN  CHOOSE o \in candidates : \A other \in candidates : o.uuid >= other.uuid

\* run, line 147: while iterations < max_iterations
LoopGoesOnAtBound(i, n) == i <= n
LoopGoesOn(i, n) == i < n

\* run, lines 152-156 and 158-162: the task is completed with an error result
Skipped(d, rest, task, error) ==
    [d EXCEPT !.queue = rest,
              !.completed = CompletedAfter(InProgressAfter(d.in_progress, task), d.completed,
                                           task.task_id, Result("", error)),
              !.in_progress = Drop(InProgressAfter(d.in_progress, task), task.task_id)]

\* run, lines 164-196: the worker is invoked on the stored context
Handled(d, rest, task, agent, behaviour) ==
    LET context_id == task.payload.context_id
        o == Deterministic(WorkerOutcomes(agents[agent].kind, d.contexts[context_id],
                                          d.next_uuid), behaviour)
        has_ids == /\ task.payload.project_id # Absent
                   /\ task.payload.version_id # Absent
        new_tasks == NextTasks(task)
        key_error == \/ ~has_ids
                     \/ new_tasks # <<>> /\ task.payload.session_id = Absent
        failed == o.raised \/ key_error
        exc == IF o.raised THEN "worker_error" ELSE "KeyError"
        logged == IF ~o.raised /\ has_ids
                  THEN LogAgentEvent(d.memory, task.payload.project_id,
                           AgentEvent(agents[agent].name, "completed",
                                      task.payload.version_id, task.task_type,
                                      <<agents[agent].name, "handled", task.task_type>>))
                  ELSE d.memory
        enq == IF failed
               THEN [queue |-> rest, counter |-> d.counter, nenq |-> d.nenq]
               ELSE EnqueueAll(rest, new_tasks, task, d.counter, d.nenq)
        stored == [d EXCEPT !.contexts = [d.contexts EXCEPT ![context_id] = o.context],
                            !.next_uuid = o.uuid,
                            !.queue = enq.queue, !.counter = enq.counter,
                            !.nenq = enq.nenq]
        registered == InProgressAfter(d.in_progress, task)
    IN  IF ~failed
        THEN [d |-> [stored EXCEPT
                        !.memory = logged,
                        !.completed = CompletedAfter(registered, d.completed, task.task_id,
                                                     Result(PostStatus(task), "")),
                        !.in_progress = Drop(registered, task.task_id)],
              stop |-> "next"]
        ELSE IF has_ids
        THEN [d |-> [stored EXCEPT
                        !.memory = LogAgentEvent(logged, task.payload.project_id,
                                       AgentEvent(agents[agent].name, "error",
                                                  task.payload.version_id,
                                                  task.task_type, <<exc>>)),
                        !.completed = CompletedAfter(registered, d.completed, task.task_id,
                                                     Result("", exc)),
                        !.in_progress = Drop(registered, task.task_id)],
              stop |-> "next"]
        ELSE [d |-> [stored EXCEPT !.memory = logged, !.in_progress = registered],
              stop |-> "raised"]

\* run, lines 148-196: the body of the loop.  stop is "next" when the loop
\* goes to its next test, "empty" at the break, "raised" when an exception
\* leaves run and "spins" when the call of dequeue does not return
Iteration(d, behaviour) ==
    IF ~DequeueReturns(d.queue, d.completed)
    THEN [d |-> d, stop |-> "spins"]
    ELSE LET r == DequeueLoop(d.queue, d.completed)
             task == r.task
             agent == SelectAgent(agents, task.task_type)
         IN  IF task = NoTask
             THEN [d |-> [d EXCEPT !.queue = r.queue], stop |-> "empty"]
             ELSE IF agent = 0
             THEN [d |-> Skipped(d, r.queue, task, "no_agent"), stop |-> "next"]
             ELSE IF task.payload.context_id = NoContextId
             THEN [d |-> [d EXCEPT !.queue = r.queue,
                                   !.in_progress = InProgressAfter(d.in_progress, task)],
                   stop |-> "raised"]
             ELSE IF task.payload.context_id \notin DOMAIN d.contexts
             THEN [d |-> Skipped(d, r.queue, task, "missing_context"), stop |-> "next"]
             ELSE Handled(d, r.queue, task, agent, behaviour)

\* run, lines 146-197: the loop from the i-th test of its condition on, for
\* the bound n; stop is "bound" when the condition ended the loop
RECURSIVE RunLoop(_, _, _, _)
RunLoop(d, i, n, behaviour) ==
    IF ~LoopGoesOn(i, n)
    THEN [d |-> d, stop |-> "bound"]
    ELSE LET step == Iteration(d, behaviour)
         IN  IF step.stop = "next"
             THEN RunLoop(step.d, i + 1, n, behaviour)
             ELSE step

\* run(max_iterations) from the call to the return or the exception
RunWhole ==
    /\ pc = "idle"
    /\ \E n \in 0..MaxIterations, behaviour \in Behaviours :
       \E r \in {RunLoop(RunData, 0, n, behaviour)} :
           /\ r.stop # "spins"
           /\ queue' = r.d.queue
           /\ in_progress' = r.d.in_progress
           /\ completed' = r.d.completed
           /\ counter' = r.d.counter
           /\ contexts' = r.d.contexts
           /\ memory' = r.d.memory
           /\ next_uuid' = r.d.next_uuid
           /\ nenq' = r.d.nenq
           /\ last' = [op |-> "run_whole", kind |-> behaviour,
                       exc |-> IF r.stop = "raised" THEN "KeyError" ELSE "",
                       task |-> NoTask, arg |-> n]
    /\ UNCHANGED <<agents, pc, iterations, max_iterations, ningest, ncaller, executed>>
    /\ UNCHANGED <<fanvars, editvars, pmvars, pairvars>>

ResumeNext == IngestContract \/ CallerEnqueue \/ RunWhole

ResumeSpec == Init /\ [][ResumeNext]_vars

----------------------------------------------------------------------------
(* The fan-out of DiligentReviewerAgent.process, lines 89-125: one          *)
(* check_with_limit coroutine per clause-policy pair, run by asyncio.gather *)
(* on one event loop.  A coroutine is "created", then "calling" while it    *)
(* holds the semaphore and awaits the external compliance call, then        *)
(* "returned" (the call answered) or "failed" (the call raised, which       *)
(* _check_policy_compliance catches, returning None).  gather starts the    *)
(* coroutines in list order and the semaphore wakes its waiters in order.   *)

\* line 95: asyncio.Semaphore(10)
SemaphoreWidth == 10

\* Semaphore.acquire does not wait: the value is positive
SemaphoreAlwaysFree(value) == TRUE
SemaphoreFree(value) == value > 0

\* Semaphore.release, made by the exit of `async with semaphore`
ReleaseOmitted(value) == value
Release(value) == value + 1

\* the coroutines in a given position
Checks(status) == {i \in 1..Len(checks) : checks[i] = status}

\* lines 89-107: the semaphore and the coroutines are created, for n pairs
FanLaunch ==
    /\ fan_pc = "idle"
    /\ \E n \in 0..MaxPairs :
           /\ checks' = [i \in 1..n |-> "created"]
           /\ fan_pc' = IF n = 0 THEN "merged" ELSE "gathering"
    /\ semaphore' = SemaphoreWidth
    /\ UNCHANGED <<fan_findings, fan_errors>>
    /\ UNCHANGED <<tmvars, orchvars, editvars, pmvars, pairvars, nenq, last>>

\* line 100: a coroutine enters `async with semaphore`
FanAcquire ==
    /\ fan_pc = "gathering"
    /\ \E i \in Checks("created") :
           /\ \A j \in Checks("created") : i <= j
           /\ SemaphoreFree(semaphore)
           /\ checks' = [checks EXCEPT ![i] = "calling"]
           /\ semaphore' = semaphore - 1
    /\ UNCHANGED <<fan_pc, fan_findings, fan_errors>>
    /\ UNCHANGED <<tmvars, orchvars, editvars, pmvars, pairvars, nenq, last>>

\* lines 100-104: the external call answers, the coroutine leaves the
\* `async with` block and ends with a finding or None
FanCallReturns ==
    /\ fan_pc = "gathering"
    /\ \E i \in Checks("calling") :
           /\ checks' = [checks EXCEPT ![i] = "returned"]
           /\ semaphore' = Release(semaphore)
    /\ UNCHANGED <<fan_pc, fan_findings, fan_errors>>
    /\ UNCHANGED <<tmvars, orchvars, editvars, pmvars, pairvars, nenq, last>>

\* the external call raises: _check_policy_compliance catches the exception
\* (lines 286-294) and returns None, the coroutine leaves the block
FanCallFails ==
    /\ fan_pc = "gathering"
    /\ \E i \in Checks("calling") :
           /\ checks' = [checks EXCEPT ![i] = "failed"]
           /\ semaphore' = Release(semaphore)
    /\ UNCHANGED <<fan_pc, fan_findings, fan_errors>>
    /\ UNCHANGED <<tmvars, orchvars, editvars, pmvars, pairvars, nenq, last>>

\* line 110: `await asyncio.gather(*tasks, return_exceptions=True)` returns
\* when every coroutine has ended
GatherReturnsOnFirstResult == Checks("returned") \cup Checks("failed") # {}
GatherReturns == Checks("created") = {} /\ Checks("calling") = {}

\* lines 110-125: gather returns once every coroutine has ended, and the loop
\* over the results appends a finding for each truthy result; no result is an
\* exception, because no coroutine ends by raising.  What an answer says is
\* read here: k of the answered calls reported a deviation.
FanMerge ==
    /\ fan_pc = "gathering"
    /\ GatherReturns
    /\ \E k \in 0..Cardinality(Checks("returned")) : fan_findings' = k
    /\ fan_errors' = 0
    /\ fan_pc' = "merged"
    /\ UNCHANGED <<checks, semaphore>>
    /\ UNCHANGED <<tmvars, orchvars, editvars, pmvars, pairvars, nenq, last>>

FanNext == FanLaunch \/ FanAcquire \/ FanCallReturns \/ FanCallFails \/ FanMerge

FanSpec == Init /\ [][FanNext]_vars


----------------------------------------------------------------------------
(* EditorAgent: the suggested edits of one process call and the conflict   *)
(* detection over them (generate_edit, _detect_conflicts, _edits_overlap,  *)
(* _get_edit_ranges).  A deletion is <<start_char, end_char>>, an insertion *)
(* is its position_char.                                                    *)

\* generate_edit, lines 214-248: the edit built from the LLM's answer
SuggestedEdit(edit_id, clause_id, deletions, insertions) ==
    [edit_id |-> edit_id, clause_id |-> clause_id, deletions |-> deletions,
     insertions |-> insertions, conflicts_with |-> <<>>]

\* _get_edit_ranges: the deletion ranges, then one range per insertion
GetEditRanges(edit) ==
    edit.deletions \o
    [i \in 1..Len(edit.insertions) |-> <<edit.insertions[i], edit.insertions[i] + 1>>]

\* _edits_overlap, line 317: the test on two ranges
RangesOverlapOrTouch(r1, r2) == ~(r1[2] < r2[1] \/ r2[2] < r1[1])
RangesOverlap(r1, r2) == ~(r1[2] <= r2[1] \/ r2[2] <= r1[1])

\* _edits_overlap
EditsOverlap(edit1, edit2) ==
    \E i \in 1..Len(GetEditRanges(edit1)), j \in 1..Len(GetEditRanges(edit2)) :
        RangesOverlap(GetEditRanges(edit1)[i], GetEditRanges(edit2)[j])

\* _detect_conflicts, lines 293-294: mark conflict, on the edits at a and b
MarkConflictOnFirstOnly(batch, a, b) ==
    [batch EXCEPT ![a].conflicts_with = Append(@, batch[b].edit_id)]
MarkConflict(batch, a, b) ==
    [batch EXCEPT ![a].conflicts_with = Append(@, batch[b].edit_id),
                  ![b].conflicts_with = Append(@, batch[a].edit_id)]

\* _detect_conflicts, lines 275-281: the keys of by_clause, in insertion order
RECURSIVE ClauseKeys(_, _, _)
ClauseKeys(batch, i, keys) ==
    IF i > Len(batch)
    THEN keys
    ELSE ClauseKeys(batch, i + 1,
                    IF \E k \in 1..Len(keys) : keys[k] = batch[i].clause_id
                    THEN keys
                    ELSE Append(keys, batch[i].clause_id))

\* _detect_conflicts, lines 275-281: by_clause[clause_id], as batch positions
ByClause(batch, clause_id) ==
    LET SameClause(i) == batch[i].clause_id = clause_id
    IN  SelectSeq([i \in 1..Len(batch) |-> i], SameClause)

\* _detect_conflicts, lines 290-294: for edit2 in clause_edits[i+1:]
RECURSIVE InnerLoop(_, _, _, _)
InnerLoop(batch, clause_edits, i, j) ==
    IF j > Len(clause_edits)
    THEN batch
    ELSE InnerLoop(IF EditsOverlap(batch[clause_edits[i]], batch[clause_edits[j]])
                   THEN MarkConflict(batch, clause_edits[i], clause_edits[j])
                   ELSE batch,
                   clause_edits, i, j + 1)

\* _detect_conflicts, line 289: for i, edit1 in enumerate(clause_edits)
RECURSIVE OuterLoop(_, _, _)
OuterLoop(batch, clause_edits, i) ==
    IF i > Len(clause_edits)
    THEN batch
    ELSE OuterLoop(InnerLoop(batch, clause_edits, i, i + 1), clause_edits, i + 1)

\* _detect_conflicts, lines 284-294: for clause_id, clause_edits in by_clause
RECURSIVE ClauseLoop(_, _)
ClauseLoop(batch, keys) ==
    IF keys = <<>>
    THEN batch
    ELSE ClauseLoop(IF Len(ByClause(batch, Head(keys))) <= 1
                    THEN batch
                    ELSE OuterLoop(batch, ByClause(batch, Head(keys)), 1),
                    Tail(keys))

\* _detect_conflicts(edits)
DetectConflicts(batch) == ClauseLoop(batch, ClauseKeys(batch, 1, <<>>))

\* what the LLM may return for one edit: one deletion (possibly empty), one
\* insertion, neither, or a deletion with an insertion
EditShapes ==
    { [deletions |-> <<r>>, insertions |-> <<>>] :
          r \in {x \in Positions \X Positions : x[1] <= x[2]} }
    \cup { [deletions |-> <<>>, insertions |-> <<pos>>] : pos \in Positions }
    \cup { [deletions |-> <<>>, insertions |-> <<>>],
           [deletions |-> <<<<0, 1>>>>, insertions |-> <<3>>],
           [deletions |-> <<<<2, 3>>>>, insertions |-> <<0>>] }

\* the clauses the edits of one call may target
EditedClauses == {"c1", "c2"}

\* process, lines 76-102: the edits generate_edit returned, with fresh ids
EditorGenerates ==
    /\ edits_pc = "none"
    /\ \E n \in 0..MaxEdits :
       \E clause_of \in [1..n -> EditedClauses], shape_of \in [1..n -> EditShapes] :
           edits' = [i \in 1..n |->
                        SuggestedEdit(i, clause_of[i], shape_of[i].deletions,
                                      shape_of[i].insertions)]
    /\ edits_pc' = "generated"
    /\ UNCHANGED <<tmvars, orchvars, fanvars, pmvars, pairvars, nenq, last>>

\* process, line 105: suggested_edits = self._detect_conflicts(suggested_edits)
EditorDetectsConflicts ==
    /\ edits_pc = "generated"
    /\ edits' = DetectConflicts(edits)
    /\ edits_pc' = "resolved"
    /\ UNCHANGED <<tmvars, orchvars, fanvars, pmvars, pairvars, nenq, last>>

EditNext == EditorGenerates \/ EditorDetectsConflicts

EditSpec == Init /\ [][EditNext]_vars

----------------------------------------------------------------------------
(* ProjectMemory under two in-process callers.  Every writing method is a  *)
(* _load_project of the whole record, a change of the loaded copy and a    *)
(* _save_project of the copy; the class holds no lock, so the steps of two *)
(* callers interleave.                                                     *)

\* the writing methods
MemoryOps == {"record_version", "record_preference", "log_agent_event"}

\* the projects the callers write to
MemoryProjects == {"p1", "p2"}

\* record_version, lines 70-83: the loaded copy with the caller's record
VersionAppended(project, caller) ==
    [project EXCEPT !.versions =
         Append(@, [version_id |-> caller, source |-> "upload",
                    checksum |-> Checksum(NoText), diff_summary |-> NoDiff])]

\* record_preference, lines 104-113: the loaded copy with the caller's
\* preference, stored for user "u1" under the caller's key
PreferenceSet(project, caller) ==
    [project EXCEPT !.preferences =
         Put(@, "u1", Put(IF "u1" \in DOMAIN @ THEN @["u1"] ELSE EmptyMap,
                          caller, [key |-> caller, source |-> "user"]))]

\* log_agent_event, lines 132-142: the loaded copy with the caller's event
EventAppended(project, caller) ==
    [project EXCEPT !.agent_events =
         Append(@, AgentEvent(caller, "note", "v1", "none", <<>>))]

\* the copy a writing method saves
Changed(op, project, caller) ==
    CASE op = "record_version" -> VersionAppended(project, caller)
      [] op = "record_preference" -> PreferenceSet(project, caller)
      [] OTHER -> EventAppended(project, caller)

\* the first half of a writing method: project = self._load_project(project_id)
MemoryLoad(c) ==
    /\ pm_pc[c] = "idle"
    /\ \E op \in MemoryOps, project_id \in MemoryProjects :
           pm_local' = [pm_local EXCEPT ![c] =
                           [op |-> op, project_id |-> project_id,
                            project |-> LoadProject(memory, project_id)]]
    /\ pm_pc' = [pm_pc EXCEPT ![c] = "loaded"]
    /\ UNCHANGED <<tmvars, orchvars, fanvars, editvars, pairvars, nenq, last>>

\* the second half: the change and self._save_project(project_id, project)
MemorySave(c) ==
    /\ pm_pc[c] = "loaded"
    /\ memory' = SaveProject(memory, pm_local[c].project_id,
                             Changed(pm_local[c].op, pm_local[c].project, c))
    /\ pm_pc' = [pm_pc EXCEPT ![c] = "done"]
    /\ UNCHANGED <<tmvars, contexts, agents, pc, iterations, max_iterations, next_uuid,
                   ningest, ncaller, executed, fanvars, editvars, pm_local, pairvars,
                   nenq, last>>

PMNext == \E c \in Callers : MemoryLoad(c) \/ MemorySave(c)

PMSpec == Init /\ [][PMNext]_vars

----------------------------------------------------------------------------
(* ProjectMemory under one caller: each writing method is one call.  The   *)
(* records are built of strings, lists and string-keyed maps, the values   *)
(* that json.loads(json.dumps(x)) gives back as they were, so that what    *)
(* _load_project returns is what _save_project was given.                  *)

\* record_preference(project_id, user_id, key, value)
RecordPreference(mem, project_id, user_id, key, value) ==
    LET project == LoadProject(mem, project_id)
        user_prefs == IF user_id \in DOMAIN project.preferences
                      THEN project.preferences[user_id]
                      ELSE EmptyMap
        pref == [key |-> key, value |-> value, source |-> "user"]
    IN  SaveProject(mem, project_id,
                    [project EXCEPT !.preferences = Put(@, user_id, Put(user_prefs, key, pref))])

\* the caller's call of one writing method
MemoryWrite(op, written) ==
    /\ pc = "idle"
    /\ ncaller < MaxWrites
    /\ memory' = written
    /\ ncaller' = ncaller + 1
    /\ last' = [op |-> op, kind |-> "", exc |-> "", task |-> NoTask, arg |-> NoId]
    /\ UNCHANGED <<tmvars, contexts, agents, pc, iterations, max_iterations, next_uuid,
                   ningest, executed, fanvars, editvars, pmvars, pairvars, nenq>>

MemRecordVersion ==
    \E project_id \in MemoryProjects, version_id \in {"v1", "v2"},
       contract_text \in {NoText, "text_a", "text_b"} :
        MemoryWrite("record_version",
                    RecordVersion(memory, project_id, version_id, "upload",
                                  Checksum(contract_text), NoDiff, contract_text))

MemRecordPreference ==
    \E project_id \in MemoryProjects, key \in {"tone", "risk"}, value \in {"low", "high"} :
        MemoryWrite("record_preference",
                    RecordPreference(memory, project_id, "u1", key, value))

MemLogAgentEvent ==
    \E project_id \in MemoryProjects, action \in {"completed", "error"} :
        MemoryWrite("log_agent_event",
                    LogAgentEvent(memory, project_id,
                                  AgentEvent("worker", action, "v1", "custom_task", <<>>)))

MemNext == MemRecordVersion \/ MemRecordPreference \/ MemLogAgentEvent

MemSpec == Init /\ [][MemNext]_vars

----------------------------------------------------------------------------
(* The reviewer's pair generation: DiligentReviewerAgent.process, lines     *)
(* 62-87, on clause lists with repeated entries, policy lists with repeated *)
(* identifiers and policies matched by the category rule, by the            *)
(* applicable_clauses rule or by both, and similarity results with          *)
(* repetitions. Identifiers may contain the separator of pair_key.          *)

ClauseEntries ==
    [clause_id : {"c1", "c1:p"}, clause_type : {"liability", Absent}]

PolicyEntries ==
    { [policy_id |-> "pol1",   policy_category |-> "liability", applicable_clauses |-> {}],
      [policy_id |-> "pol1",   policy_category |-> "other",     applicable_clauses |-> {"liability"}],
      [policy_id |-> "pol2",   policy_category |-> "liability", applicable_clauses |-> {"liability"}],
      [policy_id |-> "p:pol1", policy_category |-> "liability", applicable_clauses |-> {}],
      [policy_id |-> "pol3",   policy_category |-> "payment",   applicable_clauses |-> {}] }

ListsOf(entries) == UNION { [1..n -> entries] : n \in 0..MaxEntries }

\* process, lines 62-87: one execution builds pairs_to_check from its state
ReviewerBuildsPairs ==
    \E clauses \in ListsOf(ClauseEntries), policies \in ListsOf(PolicyEntries),
       similar \in ListsOf(PolicyEntries) :
        /\ pair_pc = "none"
        /\ pairs_to_check' = PairsToCheck(clauses, policies, similar)
        /\ pair_pc' = "paired"
        /\ last' = [op |-> "pairs", kind |-> "", exc |-> "", task |-> NoTask,
                    arg |-> [clauses |-> clauses, policies |-> policies,
                             similar |-> similar]]
        /\ UNCHANGED <<tmvars, orchvars, fanvars, editvars, pmvars, nenq>>

\* process returns: pairs_to_check and checked_pairs are locals of the call,
\* the next execution starts from empty ones
ReviewerReturns ==
    /\ pair_pc = "paired"
    /\ pairs_to_check' = <<>>
    /\ pair_pc' = "none"
    /\ last' = [op |-> "reviewed", kind |-> "", exc |-> "", task |-> NoTask, arg |-> NoId]
    /\ UNCHANGED <<tmvars, orchvars, fanvars, editvars, pmvars, nenq>>

PairNext == ReviewerBuildsPairs \/ ReviewerReturns

PairSpec == Init /\ [][PairNext]_vars

----------------------------------------------------------------------------
(* Properties of the TaskManager (under TMSpec) *)

\* the task the last dequeue call returned, if it returned one
DequeuedTask == last.op = "dequeue" /\ last.task # NoTask

\* C1: a task returned by dequeue either has no depends_on or its depends_on
\* id is a key of the completed map at the moment it is returned.
C1_DequeuedTaskIsRunnable ==
    DequeuedTask =>
        \/ last.task.depends_on = NoId
        \/ last.task.depends_on \in DOMAIN completed

\* dequeue returned a task that has a dependency
C1_Witness ==
    /\ DequeuedTask
    /\ last.task.depends_on # NoId

\* the next dequeue call treats the queued task t as runnable: the call returns,
\* and it returns t or leaves t in the queue as it is, without a penalty
TreatedAsRunnable(t) ==
    /\ t.depends_on \in DOMAIN completed
    /\ DequeueReturns(queue, completed)
    /\ \E r \in {DequeueLoop(queue, completed)} :
           r.task = t \/ \E j \in 1..Len(r.queue) : r.queue[j] = t

\* the queued tasks that depend on the id given to the last mark_complete call
DependentsOfMarked ==
    {i \in 1..Len(queue) : queue[i].depends_on = last.arg}

\* C4 as stated: after mark_complete(t, result), for any id t, every queued
\* task whose depends_on is t is treated as runnable by the next dequeue.
C4_AnyIdUnblocksDependents ==
    last.op = "mark_complete" =>
        \A i \in DependentsOfMarked : TreatedAsRunnable(queue[i])

\* C4 amended: after mark_complete(t, result) for an id t that was in the
\* in-progress registry, every queued task whose depends_on is t is treated
\* as runnable by the next dequeue.
C4_InProgressIdUnblocksDependents ==
    (last.op = "mark_complete" /\ last.task # NoTask) =>
        \A i \in DependentsOfMarked : TreatedAsRunnable(queue[i])

\* mark_complete was called for a task that was in progress while a task
\* depending on it is queued
C4_Witness ==
    /\ last.op = "mark_complete"
    /\ last.task # NoTask
    /\ DependentsOfMarked # {}

\* C5 as stated: runnable tasks of equal priority are returned by dequeue in
\* the order in which they were enqueued, whatever the clock readings (stated
\* for tasks without a dependency, whose priority is never changed).
C5_EqualPriorityIsFifo ==
    (DequeuedTask /\ last.task.depends_on = NoId) =>
        \A i \in 1..Len(queue) :
            (queue[i].depends_on = NoId /\ queue[i].priority = last.task.priority)
                => last.task.seq < queue[i].seq


----------------------------------------------------------------------------
(* Properties of AdaptiveOrchestrator.run (under Spec) *)

\* one step of a call of run that is in its loop
RunStep == RunSkip \/ RunContextKeyError \/ RunWorker \/ RunReturn

\* C2 as stated: for every content of the task queue a call run(max_iterations)
\* returns after at most max_iterations loop iterations: while the call is in
\* its loop the iteration count is within the bound and the call can take its
\* next step (the next task, or the return).
C2_RunReturnsWithinBound ==
    pc = "run" => (iterations <= max_iterations /\ ENABLED RunStep)

\* the caller has made one ingest_contract call and no enqueue call of its own
OneIngestOnly == ningest = 1 /\ ncaller = 0

\* a call of run with a bound of at least four returns
RunOfFourReturns ==
    /\ pc = "run"
    /\ max_iterations >= 4
    /\ pc' = "idle"
    /\ last'.op = "run_return"

PipelineOrder == <<"clause_review", "neutral_rationale", "style_pass", "editor_pass">>

\* the task types of the worker invocations made so far, in order
ExecutedTypes == [i \in 1..Len(executed) |-> executed[i].task_type]

\* exactly the four pipeline tasks were executed, in order, each against an
\* ingested context
FourTasksExecuted ==
    /\ ExecutedTypes = PipelineOrder
    /\ \A i \in 1..Len(executed) : executed[i].context_id \in DOMAIN contexts

EditorFailed(context) ==
    /\ context.workflow_stage = "editing"
    /\ context.errors # <<>>
    /\ context.errors[Len(context.errors)] = "EditorAgent"
    /\ Len(context.transformed_rationales) >= 2

NextTask == DequeueLoop(queue, completed).task

\* the last event in the audit list of a project
LastEvent(mem, project_id) ==
    AgentEvents(mem, project_id)[Len(AgentEvents(mem, project_id))]

\* an iteration of run has handled task, completed it with the error result
\* error, and the loop goes on with the other queued tasks left in the queue
IterationEndedInError(task, error) ==
    /\ pc' = "run"
    /\ iterations' = iterations + 1
    /\ max_iterations' = max_iterations
    /\ task.task_id \in DOMAIN completed'
    /\ completed'[task.task_id].result = Result("", error)
    /\ task.task_id \notin DOMAIN in_progress'
    /\ Len(queue') = Len(queue) - 1
    /\ \A i \in 1..Len(queue') :
           /\ queue'[i].seq # task.seq
           /\ \E j \in 1..Len(queue) : queue[j].seq = queue'[i].seq

\* a step of run in which the worker raised while handling a task whose
\* payload carries context, project and version ids
WorkerRaised ==
    /\ last'.op = "run"
    /\ last'.exc = "worker_error"
    /\ last'.task.payload.context_id # NoContextId
    /\ last'.task.payload.project_id # Absent
    /\ last'.task.payload.version_id # Absent

NoCapableWorker(task_type) ==
    \A i \in 1..Len(agents) : task_type \notin agents[i].supported

\* the next iteration of run gets a task that no registered worker supports or
\* whose context id is absent from the context store
NextTaskCannotRun ==
    /\ LoopEntered
    /\ NextTask # NoTask
    /\ \/ NoCapableWorker(NextTask.task_type)
       \/ /\ NextTask.payload.context_id # NoContextId
          /\ NextTask.payload.context_id \notin DOMAIN contexts

\* C7: a dequeued task for which no registered worker supports its type, or
\* whose context id is absent from the context store, is marked complete with
\* an error result, no worker is invoked for it, no successor task is enqueued,
\* it counts as one iteration, and the loop continues with the next task.
C7_UnrunnableTaskIsSkipped ==
    [][NextTaskCannotRun =>
          /\ IterationEndedInError(NextTask,
                                   IF NoCapableWorker(NextTask.task_type)
                                   THEN "no_agent" ELSE "missing_context")
          /\ executed' = executed
          /\ nenq' = nenq
          /\ contexts' = contexts]_vars

\* the completion records whose result is the error e
CompletedWithError(e) ==
    {id \in DOMAIN completed : completed[id].result.error = e}

\* run has just skipped a task, and both kinds of skipped task are completed
C7_Witness ==
    /\ pc = "run"
    /\ last.op = "run"
    /\ last.kind \in {"no_agent", "missing_context"}
    /\ CompletedWithError("no_agent") # {}
    /\ CompletedWithError("missing_context") # {}


\* the completion records that hold an error result
FailedTasks == {id \in DOMAIN completed : completed[id].result.error # ""}

\* the failure recorded for task id is an entry of the error list of the
\* task's context
InContextErrors(id) ==
    /\ completed[id].payload.context_id \in DOMAIN contexts
    /\ contexts[completed[id].payload.context_id].errors # <<>>

\* the failure recorded for task id is an 'error' entry of the audit event
\* list of the task's project
InAuditEvents(id) ==
    \E i \in 1..Len(AgentEvents(memory, completed[id].payload.project_id)) :
        LET event == AgentEvents(memory, completed[id].payload.project_id)[i]
        IN  /\ event.action = "error"
            /\ event.task_type = completed[id].task_type
            /\ event.detail = <<completed[id].result.error>>

NewlyFailed == {id \in DOMAIN completed' \ DOMAIN completed :
                    completed'[id].result.error # ""}

----------------------------------------------------------------------------
(* Properties of the clause-review fan-out (under FanSpec) *)

\* the external compliance calls in flight
InFlight == Cardinality(Checks("calling"))

\* C9: during the clause-review fan-out, in every interleaving of the pair
\* evaluations, the number of external compliance calls in flight at the same
\* time never exceeds the semaphore width (10), for any number of pairs.
C9_InFlightWithinWidth == InFlight <= SemaphoreWidth

\* as many calls in flight as the semaphore is wide while a pair waits
C9_Witness ==
    /\ InFlight = SemaphoreWidth
    /\ Checks("created") # {}

\* one step of the fan-out after its launch
FanStep == FanAcquire \/ FanCallReturns \/ FanCallFails \/ FanMerge

\* C10: one pair evaluation that fails does not prevent the others from
\* completing: while the fan-out is under way some evaluation can take its
\* next step or the results can be gathered, every slot not held by a call in
\* flight is free, also after failures, and when the results are gathered
\* every launched evaluation has ended, by an answer or by a failure.
C10_FailureDoesNotBlockSiblings ==
    /\ fan_pc = "gathering" =>
          /\ ENABLED FanStep
          /\ semaphore = SemaphoreWidth - InFlight
    /\ fan_pc = "merged" =>
          /\ \A i \in 1..Len(checks) : checks[i] \in {"returned", "failed"}
          /\ semaphore = SemaphoreWidth

\* the results are gathered from more pairs than the semaphore is wide, of
\* which one failed and the last one launched answered
C10_Witness ==
    /\ fan_pc = "merged"
    /\ Len(checks) > SemaphoreWidth
    /\ checks[1] = "failed"
    /\ checks[Len(checks)] = "returned"


----------------------------------------------------------------------------
(* Properties of the editor's conflict detection (under EditSpec) *)

\* the ids in the conflicts_with list of the edit at position a
ConflictIds(a) == {edits[a].conflicts_with[k] : k \in 1..Len(edits[a].conflicts_with)}

\* C11: after conflict resolution of a batch of edits, conflict marking is
\* symmetric: a's conflicts_with contains b's id if and only if b's
\* conflicts_with contains a's id.
C11_ConflictMarkingIsSymmetric ==
    edits_pc = "resolved" =>
        \A a, b \in 1..Len(edits) :
            edits[b].edit_id \in ConflictIds(a) <=> edits[a].edit_id \in ConflictIds(b)

\* a resolved batch in which two edits are marked as conflicting
C11_Witness ==
    /\ edits_pc = "resolved"
    /\ \E a, b \in 1..Len(edits) : a # b /\ edits[b].edit_id \in ConflictIds(a)

\* the characters of a range: deletion [start, end), insertion [pos, pos + 1)
CharsOf(range) == range[1]..(range[2] - 1)

\* an affected range of one edit intersects an affected range of the other
RangesIntersect(edit1, edit2) ==
    \E i \in 1..Len(GetEditRanges(edit1)), j \in 1..Len(GetEditRanges(edit2)) :
        CharsOf(GetEditRanges(edit1)[i]) \cap CharsOf(GetEditRanges(edit2)[j]) # {}

\* the ids that the conflicts_with list of the edit at position a is to hold
IntersectingIds(a) ==
    {edits[b].edit_id : b \in {x \in 1..Len(edits) :
                                  /\ x # a
                                  /\ edits[x].clause_id = edits[a].clause_id
                                  /\ RangesIntersect(edits[a], edits[x])}}

\* conflicts_with of the edit at position a holds each id of ids once, only
ListsExactly(a, ids) ==
    /\ ConflictIds(a) = ids
    /\ Len(edits[a].conflicts_with) = Cardinality(ids)

\* C12 as stated: after conflict resolution each edit's conflicts_with
\* contains, exactly once each, the ids of the other edits that target the
\* same clause and have an affected range intersecting one of its own, and
\* nothing else.
C12_ConflictsAreIntersections ==
    edits_pc = "resolved" =>
        \A a \in 1..Len(edits) : ListsExactly(a, IntersectingIds(a))

\* every deletion of the batch removes at least one character
NoEmptyDeletion ==
    \A a \in 1..Len(edits) : \A k \in 1..Len(edits[a].deletions) :
        edits[a].deletions[k][1] < edits[a].deletions[k][2]

\* an affected range of one edit starts before an affected range of the
\* other ends, and the other way round
RangesInterleave(edit1, edit2) ==
    \E i \in 1..Len(GetEditRanges(edit1)), j \in 1..Len(GetEditRanges(edit2)) :
        /\ GetEditRanges(edit1)[i][1] < GetEditRanges(edit2)[j][2]
        /\ GetEditRanges(edit2)[j][1] < GetEditRanges(edit1)[i][2]

\* the ids of the other edits on the clause of the edit at position a whose
\* ranges interleave with its own
InterleavingIds(a) ==
    {edits[b].edit_id : b \in {x \in 1..Len(edits) :
                                  /\ x # a
                                  /\ edits[x].clause_id = edits[a].clause_id
                                  /\ RangesInterleave(edits[a], edits[x])}}

\* C12 amended: after conflict resolution each edit's conflicts_with
\* contains, exactly once each, the ids of the other edits on the same clause
\* with a range that starts before one of its own ranges ends and ends after
\* that range starts, and nothing else; when every deletion of the batch has
\* start < end these are the edits whose ranges intersect its own.
C12_ConflictsAreInterleavings ==
    edits_pc = "resolved" =>
        \A a \in 1..Len(edits) :
            /\ ListsExactly(a, InterleavingIds(a))
            /\ NoEmptyDeletion => ListsExactly(a, IntersectingIds(a))

\* the resolved batch of the scenario, scaled: A deletes [0,2), B deletes
\* [1,3) of the same clause, each lists exactly the other
C12_Witness ==
    /\ edits_pc = "resolved"
    /\ Len(edits) = 2
    /\ edits[1].clause_id = edits[2].clause_id
    /\ edits[1].deletions = <<<<0, 2>>>>
    /\ edits[2].deletions = <<<<1, 3>>>>
    /\ edits[1].conflicts_with = <<edits[2].edit_id>>
    /\ edits[2].conflicts_with = <<edits[1].edit_id>>


----------------------------------------------------------------------------
(* Properties of ingestion (under Spec) *)

\* the version records of a project
Versions(mem, project_id) == LoadProject(mem, project_id).versions

\* this step is a call of ingest_contract
IngestStep == ningest' = ningest + 1

\* the project, the version id and the text the call of this step passed
IngestedProject == last'.task.payload.project_id
IngestedVersion == last'.task.payload.version_id
IngestedText == contexts'[last'.task.payload.context_id].contract_text

\* this step ingests, for a project, the text the project's previous
\* ingestion had
SameTextAgain ==
    /\ IngestStep
    /\ Versions(memory, IngestedProject) # <<>>
    /\ LatestContractText(memory, IngestedProject) = IngestedText

\* the record of the previous ingestion and the record this step appended
FirstRecord == Versions(memory, IngestedProject)[Len(Versions(memory, IngestedProject))]
SecondRecord == Versions(memory', IngestedProject)[Len(Versions(memory', IngestedProject))]

\* this step appended one record to the project's history whose checksum is
\* that of the previous one and whose diff summary is empty
AppendsEqualChecksumEmptyDiff ==
    /\ Len(Versions(memory', IngestedProject)) = Len(Versions(memory, IngestedProject)) + 1
    /\ SubSeq(Versions(memory', IngestedProject), 1, Len(Versions(memory, IngestedProject)))
           = Versions(memory, IngestedProject)
    /\ SecondRecord.checksum = FirstRecord.checksum
    /\ SecondRecord.diff_summary = NoDiff

\* C13 as stated: ingesting the same document text twice for the same project
\* appends two version records whose checksums are identical and whose
\* version ids are distinct, and the diff summary of the second is empty.
C13_SameTextGivesDistinctVersionIds ==
    [][SameTextAgain =>
          /\ AppendsEqualChecksumEmptyDiff
          /\ SecondRecord.version_id # FirstRecord.version_id]_vars

\* C13 amended: the same, except that each record carries the version id its
\* ingestion call passed: the two ids are distinct exactly when the caller
\* passed distinct ids.
C13_SameTextGivesVersionIdsAsPassed ==
    [][SameTextAgain =>
          /\ AppendsEqualChecksumEmptyDiff
          /\ SecondRecord.version_id = IngestedVersion]_vars

\* the same text was ingested twice for one project under two version ids
C13_Witness ==
    \E p \in DOMAIN memory :
        /\ Len(memory[p].versions) = 2
        /\ memory[p].versions[1].checksum = memory[p].versions[2].checksum
        /\ memory[p].versions[1].version_id # memory[p].versions[2].version_id
        /\ memory[p].versions[2].diff_summary = NoDiff


----------------------------------------------------------------------------
(* Properties of ProjectMemory under concurrent callers (under PMSpec) *)

\* the entry caller c appended is in the durable record of its project
EntryKept(c) ==
    LET project == LoadProject(memory, pm_local[c].project_id)
    IN  CASE pm_local[c].op = "record_version" ->
                 \E i \in 1..Len(project.versions) : project.versions[i].version_id = c
          [] pm_local[c].op = "record_preference" ->
                 /\ "u1" \in DOMAIN project.preferences
                 /\ c \in DOMAIN project.preferences["u1"]
          [] OTHER ->
                 \E i \in 1..Len(project.agent_events) : project.agent_events[i].agent = c

\* C14: when two in-process callers concurrently append to the same project's
\* durable record, no appended entry is lost: once both calls have finished,
\* the record contains the entries of both.
C14_NoAppendedEntryIsLost ==
    (\A c \in Callers : pm_pc[c] = "done") => \A c \in Callers : EntryKept(c)


----------------------------------------------------------------------------
(* Properties of the stored contexts (under Spec) *)

\* the place of a stage marker in the order
\* reviewing < rationalizing < styling < editing < complete
StageRank(stage) ==
    CASE stage = "reviewing" -> 1
      [] stage = "rationalizing" -> 2
      [] stage = "styling" -> 3
      [] stage = "editing" -> 4
      [] stage = "complete" -> 5
      [] OTHER -> 0

\* C15: for every context held in the context store, across any sequence of
\* ingest_contract and run calls, the workflow stage marker never moves to an
\* earlier stage of the order reviewing < rationalizing < styling < editing <
\* complete.
C15_StageNeverMovesBack ==
    [][\A id \in DOMAIN contexts \cap DOMAIN contexts' :
           StageRank(contexts'[id].workflow_stage) >= StageRank(contexts[id].workflow_stage)]_vars

\* every element of the sequence before is an element of the sequence after
KeepsElements(before, after) ==
    \A i \in 1..Len(before) : \E j \in 1..Len(after) : after[j] = before[i]

\* C16: across any sequence of ingest_contract and run calls, the four output
\* collections of a stored context and its error list only grow: every
\* element present once a task has completed is still present after every
\* later task on that context.
C16_CollectionsOnlyGrow ==
    [][\A id \in DOMAIN contexts \cap DOMAIN contexts' :
           /\ KeepsElements(contexts[id].findings, contexts'[id].findings)
           /\ KeepsElements(contexts[id].neutral_rationales, contexts'[id].neutral_rationales)
           /\ KeepsElements(contexts[id].transformed_rationales,
                            contexts'[id].transformed_rationales)
           /\ KeepsElements(contexts[id].suggested_edits, contexts'[id].suggested_edits)
           /\ KeepsElements(contexts[id].errors, contexts'[id].errors)]_vars


----------------------------------------------------------------------------
(* Properties of the task lifecycle (under TMSpec) *)

\* the ids of the queued tasks
QueuedIds(q) == {q[i].task_id : i \in 1..Len(q)}

\* C17: a task never moves backward in its lifecycle queued -> in-progress ->
\* completed: once mark_complete has stored a record under a task id, that
\* record is never changed or removed and that id never again appears in the
\* queue or the in-progress registry.
C17_CompletedIsFinal ==
    [][\A id \in DOMAIN completed :
           /\ id \in DOMAIN completed'
           /\ completed'[id] = completed[id]
           /\ id \notin QueuedIds(queue')
           /\ id \notin DOMAIN in_progress']_vars

\* C19: dequeue on an empty queue returns none, raises nothing and leaves the queue, the
\* in-progress registry and the completed map unchanged.
C19_DequeueOnEmptyReturnsNone ==
    [][(queue = <<>> /\ last'.op = "dequeue") =>
          /\ last'.task = NoTask
          /\ last'.exc = ""
          /\ UNCHANGED <<queue, in_progress, completed>>]_vars

\* dequeue was called on an empty queue and returned none
C19_Witness ==
    /\ last.op = "dequeue"
    /\ last.task = NoTask
    /\ queue = <<>>


----------------------------------------------------------------------------
(* Properties of the error entries of a context (under Spec) *)

\* the error list of the stored context id, empty when none is stored
ContextErrors(store, id) == IF id \in DOMAIN store THEN store[id].errors ELSE <<>>

\* C20: when a worker raises an exception that reaches the orchestrator, an
\* error entry is appended to the error list of the context the task refers
\* to, in addition to the Agent Event that is recorded.
C20_WorkerErrorIsLoggedToContext ==
    [][WorkerRaised =>
          /\ last'.task.payload.context_id \in DOMAIN contexts'
          /\ Len(ContextErrors(contexts', last'.task.payload.context_id))
                = Len(ContextErrors(contexts, last'.task.payload.context_id)) + 1]_vars


----------------------------------------------------------------------------
(* Properties of resumed runs (under ResumeSpec) *)

\* what the caller can observe of the data of run: the queue, the completed
\* map, the stored contexts and the event lists
Observed(d) ==
    <<d.queue, d.completed, d.contexts,
      [p \in DOMAIN d.memory |-> d.memory[p].agent_events]>>

\* run(k) from the data d is stopped by its bound, and run(m) called next
\* returns or raises leaving the observed data as after
ResumedRunLeaves(d, k, m, behaviour, after) ==
    RunLoop(d, 0, k, behaviour).stop = "bound" =>
        /\ RunLoop(RunLoop(d, 0, k, behaviour).d, 0, m, behaviour).stop # "spins"
        /\ Observed(RunLoop(RunLoop(d, 0, k, behaviour).d, 0, m, behaviour).d) = after

\* C18: a run stopped by its iteration bound can be resumed: for deterministic
\* workers, run(k) followed by run(m) leaves the queue, the completed map,
\* the stored contexts and the event list in the same state as a single
\* run(k+m) from the same starting state.
C18_ResumedRunEqualsSingleRun ==
    [][last'.op = "run_whole" =>
          \A k \in 0..last'.arg :
              ResumedRunLeaves(RunData, k, last'.arg - k, last'.kind,
                               Observed(RunData'))]_vars

\* a single run(4) has handled the four tasks of a pipeline, which run(2)
\* followed by run(2) handles two by two
C18_Witness ==
    /\ last.op = "run_whole"
    /\ last.arg = MaxIterations
    /\ Cardinality(DOMAIN completed) >= 4
    /\ queue = <<>>


----------------------------------------------------------------------------
(* Properties of the merge of the reviewer's fan-out (under FanSpec) *)

\* C21: in the clause-review fan-out, every pair evaluation whose external
\* call fails yields no finding and appends one entry to the context's error
\* list, so that the number of error entries added by the task equals the
\* number of failed evaluations.
C21_FailedEvaluationsAreLogged ==
    fan_pc = "merged" =>
        /\ fan_findings <= Cardinality(Checks("returned"))
        /\ fan_errors = Cardinality(Checks("failed"))

\* C29: in the clause-review fan-out the concurrent pair evaluations never
\* write to the context: no finding and no error entry is added while any
\* pair evaluation of the task is still in flight, and all results are merged
\* by the task itself after every evaluation has completed or failed.
C29_ContextWrittenOnlyAtMerge ==
    [][(fan_findings' # fan_findings \/ fan_errors' # fan_errors \/ fan_pc' = "merged") =>
          /\ Checks("created") = {}
          /\ Checks("calling") = {}
          /\ checks' = checks]_vars

\* the results were merged after some evaluations answered with a deviation
\* and some failed
C29_Witness ==
    /\ fan_pc = "merged"
    /\ fan_findings > 0
    /\ Checks("failed") # {}
    /\ Cardinality(Checks("returned")) > 1


----------------------------------------------------------------------------
(* Properties of insertion points (under EditSpec) *)

\* the edits at a and b have insertion points that are identical or adjacent
InsertionsIdenticalOrAdjacent(a, b) ==
    \E i \in 1..Len(edits[a].insertions), j \in 1..Len(edits[b].insertions) :
        \/ edits[a].insertions[i] = edits[b].insertions[j]
        \/ edits[a].insertions[i] + 1 = edits[b].insertions[j]
        \/ edits[b].insertions[j] + 1 = edits[a].insertions[i]

\* C22: two edits on the same clause whose insertion points are identical
\* (both at position p) or adjacent (at p and p+1) are flagged as conflicting
\* with each other.
C22_NearInsertionsConflict ==
    edits_pc = "resolved" =>
        \A a, b \in 1..Len(edits) :
            (a # b /\ edits[a].clause_id = edits[b].clause_id
                   /\ InsertionsIdenticalOrAdjacent(a, b)) =>
                /\ edits[b].edit_id \in ConflictIds(a)
                /\ edits[a].edit_id \in ConflictIds(b)


----------------------------------------------------------------------------
(* Properties of the successors of a task (under Spec) *)

\* a step of run in which the worker returned for a task whose payload
\* carries context, project and version ids
WorkerReturned ==
    /\ pc = "run"
    /\ last'.op = "run"
    /\ last'.kind \in {"completed", "error"}
    /\ last'.exc # "worker_error"
    /\ last'.task.payload.context_id # NoContextId
    /\ last'.task.payload.project_id # Absent
    /\ last'.task.payload.version_id # Absent

\* the places in the queue of the tasks this step enqueued
EnqueuedNow == {i \in 1..Len(queue') : queue'[i].seq >= nenq}

\* the transition table: the type that follows, "none" at the end
TypeAfter(task_type) ==
    CASE task_type = "clause_review" -> "neutral_rationale"
      [] task_type = "neutral_rationale" -> "style_pass"
      [] task_type = "style_pass" -> "editor_pass"
      [] OTHER -> "none"

\* the queued task is the successor of task that the table gives
IsSuccessorOf(queued, task) ==
    /\ queued.task_type = TypeAfter(task.task_type)
    /\ queued.priority = task.priority + 1
    /\ queued.depends_on = task.task_id
    /\ queued.payload.context_id = task.payload.context_id
    /\ queued.payload.project_id = task.payload.project_id
    /\ queued.payload.version_id = task.payload.version_id

\* C23: whenever a worker returns successfully for a task whose payload
\* carries at least context id, project id and version id, the successors
\* given by the transition table are enqueued: exactly one task of the next
\* type after clause_review, neutral_rationale or style_pass, none after
\* editor_pass, each with priority equal to the executed task's priority plus
\* one, depends_on equal to its task id, and the same context, project and
\* version ids.
C23_SuccessorsAreEnqueued ==
    [][WorkerReturned =>
          IF TypeAfter(last'.task.task_type) = "none"
          THEN EnqueuedNow = {}
          ELSE /\ Cardinality(EnqueuedNow) = 1
               /\ \A i \in EnqueuedNow : IsSuccessorOf(queue'[i], last'.task)]_vars


----------------------------------------------------------------------------
(* Properties of the single writer of a context (under Spec) *)

\* a step of run that handles a task
HandlesTask == pc = "run" /\ last'.op = "run"

\* the tasks of the in-progress registry that refer to the context id
InProgressOn(reg, context_id) ==
    {id \in DOMAIN reg : reg[id].payload.context_id = context_id}

\* the context the worker returned for the task of this step is stored
\* under the task's context id
UpdatedContextStored ==
    /\ last'.task.payload.context_id \in DOMAIN contexts
    /\ \E o \in WorkerOutcomes(agents[SelectAgent(agents, last'.task.task_type)].kind,
                               contexts[last'.task.payload.context_id], next_uuid) :
           contexts' = [contexts EXCEPT ![last'.task.payload.context_id] = o.context]

\* the single-writer conditions on one step: the registry never holds more
\* than one task, it holds none when the handled task enters it, and
\* successors are enqueued with the updated context stored
SingleWriterStep ==
    /\ Cardinality(DOMAIN in_progress) <= 1
    /\ HandlesTask =>
          /\ in_progress = EmptyMap
          /\ InProgressOn(in_progress, last'.task.payload.context_id) = {}
          /\ EnqueuedNow # {} => UpdatedContextStored

\* C24 as stated: within run the context is single-writer: at every point at
\* most one task is in the in-progress registry, and at the moment a
\* successor task is enqueued the predecessor's updated context has already
\* been stored under the context id, so no task starts on a context while
\* another task on it is in progress.
C24_SingleWriter == [][SingleWriterStep]_vars

\* the payload carries context, project and version ids
HasIds(payload) ==
    /\ payload.context_id # NoContextId
    /\ payload.project_id # Absent
    /\ payload.version_id # Absent

\* every task enqueued so far carries the three ids
AllPayloadsHaveIds ==
    /\ \A i \in 1..Len(queue) : HasIds(queue[i].payload)
    /\ \A id \in DOMAIN in_progress : HasIds(in_progress[id].payload)
    /\ \A id \in DOMAIN completed : HasIds(completed[id].payload)

\* C24 amended: the same, as long as every task enqueued so far carries
\* context, project and version ids in its payload (no call of run has been
\* left by a KeyError with a task still registered as in progress).
C24_SingleWriterForPayloadsWithIds ==
    [][AllPayloadsHaveIds => SingleWriterStep]_vars

\* run has just handled a task, stored its context and enqueued its successor,
\* with no task left in progress
C24_Witness ==
    /\ pc = "run"
    /\ last.op = "run"
    /\ last.kind = "completed"
    /\ AllPayloadsHaveIds
    /\ in_progress = EmptyMap
    /\ \E i \in 1..Len(queue) :
           /\ queue[i].depends_on = last.arg
           /\ queue[i].payload.context_id = last.task.payload.context_id


----------------------------------------------------------------------------
(* Properties of dequeue on blocked and runnable tasks (under TMSpec) *)

\* this step is a call of dequeue that returned
DequeueStep == last'.op = "dequeue"

\* the queued tasks whose dependency is incomplete
BlockedTasks == {queue[i] : i \in {k \in 1..Len(queue) : Blocked(queue[k], completed)}}

\* the entry of the queue after the call that is the task b of the queue
\* before it (seq numbers the enqueue calls)
Kept(b) == {queue'[j] : j \in {k \in 1..Len(queue') : queue'[k].seq = b.seq}}

\* the blocked task b is in the queue after the call, once, changed in its
\* priority value only
StillQueued(b) ==
    /\ Cardinality({k \in 1..Len(queue') : queue'[k].seq = b.seq}) = 1
    /\ \A t \in Kept(b) : [t EXCEPT !.priority = b.priority] = b

\* C25 as stated: a task whose dependency is incomplete is never discarded by
\* dequeue: it is still in the queue when dequeue returns, and each dequeue
\* call that encounters it raises its priority value by exactly one.
C25_BlockedTaskPenalisedOncePerCall ==
    [][DequeueStep =>
          \A b \in BlockedTasks :
              /\ StillQueued(b)
              /\ \A t \in Kept(b) : t.priority \in {b.priority, b.priority + 1}]_vars

\* C25 amended: a task whose dependency is incomplete is never discarded by
\* dequeue: it is still in the queue when dequeue returns, and every pop that
\* encounters it raises its priority value by exactly one; one call pops it
\* again and again, for as long as it is the least entry of the heap, so that
\* its priority value is raised until the returned task precedes it.
C25_BlockedTaskPenalisedUntilBehind ==
    [][DequeueStep =>
          \A b \in BlockedTasks :
              /\ StillQueued(b)
              /\ \A t \in Kept(b) :
                    /\ t.priority >= b.priority
                    /\ t.priority > b.priority =>
                          /\ last'.task # NoTask
                          /\ ~TaskLess(last'.task, [t EXCEPT !.priority = @ - 1])
                          /\ ~TaskLess(t, last'.task)]_vars

\* dequeue has returned a task and left behind a blocked task whose priority
\* value it raised by more than one
C25_Witness ==
    /\ last.op = "dequeue"
    /\ last.task # NoTask
    /\ \E i \in 1..Len(queue) :
           /\ Blocked(queue[i], completed)
           /\ queue[i].priority >= 2


\* the task has no depends_on, or its depends_on is already completed
Runnable(t) == t.depends_on = NoId \/ t.depends_on \in DOMAIN completed

\* the places of the runnable tasks in the queue
RunnablePlaces == {i \in 1..Len(queue) : Runnable(queue[i])}

\* C26: whenever the queue holds at least one runnable task, dequeue
\* terminates and returns the runnable task with the least (priority, creation
\* time) among the runnable tasks, however many blocked tasks with smaller
\* priority values precede it, and leaves the priority of every runnable task
\* unchanged.
C26_LeastRunnableIsReturned ==
    [][(DequeueStep /\ RunnablePlaces # {}) =>
          /\ \E i \in RunnablePlaces : queue[i] = last'.task
          /\ \A i \in RunnablePlaces : ~TaskLess(queue[i], last'.task)
          /\ \A i \in RunnablePlaces :
                 queue[i].seq # last'.task.seq =>
                     \E j \in 1..Len(queue') : queue'[j] = queue[i]
          /\ Len(queue') = Len(queue) - 1]_vars

\* dequeue has returned a runnable task of priority 1 that was enqueued after
\* a blocked task of smaller priority value, which it passed
C26_Witness ==
    /\ last.op = "dequeue"
    /\ last.task # NoTask
    /\ last.task.priority = 1
    /\ \E i \in 1..Len(queue) :
           /\ ~Runnable(queue[i])
           /\ queue[i].seq < last.task.seq
           /\ queue[i].priority = 2


----------------------------------------------------------------------------
(* Properties of ProjectMemory under one caller (under MemSpec) *)

\* the sequence after begins with the sequence before
Extends(before, after) ==
    /\ Len(after) >= Len(before)
    /\ SubSeq(after, 1, Len(before)) = before

\* C27: for every project, after any sequence of record_version,
\* record_preference and log_agent_event calls made by one caller, the stored
\* version list and the stored event list each extend their previous value:
\* earlier records remain present, unchanged and in the same order.
C27_ListsAreAppendOnly ==
    [][\A project_id \in MemoryProjects :
           /\ Extends(Versions(memory, project_id), Versions(memory', project_id))
           /\ Extends(AgentEvents(memory, project_id), AgentEvents(memory', project_id))]_vars

\* a project has two version records after a third call that wrote an event
C27_Witness ==
    /\ last.op = "log_agent_event"
    /\ \E project_id \in DOMAIN memory :
           /\ Len(memory[project_id].versions) = 2
           /\ memory[project_id].versions[1] # memory[project_id].versions[2]
           /\ Len(memory[project_id].agent_events) = 1

----------------------------------------------------------------------------
(* Properties of the reviewer's pair generation (under PairSpec) *)

PairIds(pair) == <<pair[1].clause_id, pair[2].policy_id>>

\* The relevance rules that select a policy for a clause type
MatchingRules(clause, policy) ==
    (IF policy.policy_category = clause.clause_type THEN {"category"} ELSE {}) \cup
    (IF clause.clause_type \in policy.applicable_clauses THEN {"applicable"} ELSE {})

\* C28: within one clause_review execution no (clause_id, policy_id) pair is
\* put on the list of pairs to evaluate more than once, whether the pair is
\* matched by more than one relevance rule or reached through more than one
\* clause entry.
C28_NoPairEvaluatedTwice ==
    pair_pc = "paired" =>
        \A i, j \in 1..Len(pairs_to_check) :
            i # j => PairIds(pairs_to_check[i]) # PairIds(pairs_to_check[j])

\* An execution whose clause list holds the same clause twice and whose policy
\* list holds one identifier under both rules and one policy matching both:
\* the pairs are kept once each.
C28_Witness ==
    /\ pair_pc = "paired"
    /\ Len(last.arg.clauses) = 2
    /\ last.arg.clauses[1] = last.arg.clauses[2]
    /\ last.arg.clauses[1].clause_type = "liability"
    /\ Len(last.arg.policies) = 2
    /\ \E i \in 1..2 : Cardinality(MatchingRules(last.arg.clauses[1], last.arg.policies[i])) = 2
    /\ Len(pairs_to_check) = 2

----------------------------------------------------------------------------
(* Agent events of handled tasks (under Spec) *)

\* a step of run that invokes a worker on a task carrying the three ids
WorkerInvokedWithIds ==
    /\ pc = "run"
    /\ last'.op = "run"
    /\ last'.kind \in {"completed", "error"}
    /\ HasIds(last'.task.payload)

\* the events the step appended to the task's project
EventsRecorded ==
    LET before == AgentEvents(memory, last'.task.payload.project_id)
        after == AgentEvents(memory', last'.task.payload.project_id)
    IN  SubSeq(after, Len(before) + 1, Len(after))

\* the event agrees with the result stored for the task
EventAgrees(event, result) ==
    /\ result.status # "" => event.action = "completed"
    /\ result.error # "" => event.action = "error"

\* C30: for every task on which a worker is invoked and whose payload carries
\* at least context id, project id and version id, exactly one agent event is
\* recorded for the task and it agrees with the stored result: "completed"
\* when the task is marked complete with a status, "error" when it is marked
\* complete with an error; never both events for one task.
C30_OneEventPerHandledTask ==
    [][WorkerInvokedWithIds =>
          /\ last'.task.task_id \in DOMAIN completed'
          /\ Len(EventsRecorded) = 1
          /\ EventAgrees(EventsRecorded[1], completed'[last'.task.task_id].result)]_vars

============================================================================
